---- MODULE Spec2Model ----
(***************************************************************************)
(* A model of the qBraid program wrapper and its transpile operation       *)
(* (src/qbraid/transpiler/wrapper_abc.py), of the importer and exporter it *)
(* chains, and of the unitary comparison its tests use; of the Cirq gates  *)
(* of src/qbraid/transpiler2/interface/cirq_qasm_gates.py; of the device   *)
(* listing (src/qbraid/get_devices.py, devices/_utils/get_devices.py) and  *)
(* of job creation (devices/_utils/job_api.py).  Each part has its own     *)
(* variables and its own specification; the other parts stay at rest.      *)
(*                                                                         *)
(* convert_to_cirq, convert_from_cirq, the gate tables, the subclass       *)
(* wrappers and the unitary oracle are not among the source files; they    *)
(* are modelled from the specification (sections 3 and 4) and are marked   *)
(* so where they are defined.                                              *)
(***************************************************************************)
EXTENDS Integers, Sequences, FiniteSets, TLC

VARIABLES
    wrapper,    \* the QuantumProgramWrapper object: its private fields
    call,       \* the last transpile call on it: arguments, outcome, trace
    gate_call,  \* the last call into cirq_qasm_gates: arguments and result
    threads,    \* concurrent transpile calls: each thread's wrapper, position, locals
    globals,    \* the module globals those calls share
    collection, \* the supported_devices collection: a document for each qbraid_id
    now,        \* the clock, in seconds
    device_call,\* the last get_devices call: arguments, outcome, what it displayed
    jobs,       \* the job documents created through /init-job
    job_call    \* the last call into job_api: arguments and outcome

vars == <<wrapper, call, gate_call, threads, globals, collection, now, device_call,
          jobs, job_call>>

\* the variables of each part
transpilerVars == <<wrapper, call>>
gateVars == <<gate_call>>
concurrentVars == <<threads, globals>>
deviceVars == <<collection, now, device_call>>
jobVars == <<jobs, job_call>>

\* no call into cirq_qasm_gates yet
NoGateCall ==
    [fn |-> "none", theta |-> 0, exponent |-> 0, global_shift |-> 0, qubit |-> 0,
     gate |-> [cls |-> "None", num_qubits |-> 0, angles |-> <<>>, theta |-> 0],
     qasm |-> <<>>, returned_none |-> FALSE]

GatesAtRest == gate_call = NoGateCall

(***************************************************************************)
(* Bounds of the model.                                                    *)
(***************************************************************************)
\* longest program built from the core operations
MaxOps == 2

(***************************************************************************)
(* Values.                                                                 *)
(***************************************************************************)
\* Python's None, where a string is expected
None == "None"

\* qbraid._typing.SUPPORTED_PROGRAM_TYPES: the registered format tags
SUPPORTED_PROGRAM_TYPES == {"cirq", "braket", "pyquil"}

\* string tags a caller can pass that are not registered
UnregisteredTypes == {"qasm3"}

\* conversion_type (str): every tag a caller passes to transpile
ConversionTypes == SUPPORTED_PROGRAM_TYPES \cup UnregisteredTypes

\* native qubit labels: LineQubit(1), LineQubit(6) of the tests; 0 and 1 of pyquil_bell
NativeQubits == {0, 1, 6}

\* a gate argument: none, a bound literal, a native free symbol, or a ParamID.
\* A literal angle counts eighths of pi; a literal exponent counts quarters.
NoArg == [tag |-> "none", val |-> 0, name |-> ""]
Matrix(n) == [tag |-> "matrix", val |-> 0, name |-> n]
Lit(k) == [tag |-> "lit", val |-> k, name |-> ""]
Sym(n) == [tag |-> "sym", val |-> 0, name |-> n]
ParamID(i, n) == [tag |-> "param", val |-> i, name |-> n]

Op(g, qs, a) == [gate |-> g, qubits |-> qs, arg |-> a]
NoOp == Op(None, <<>>, NoArg)

\* a program object: its class, its operations, and which object it is:
\* 1 the object handed to the wrapper, 2 the circuit the importer builds,
\* 3 the program the exporter builds, 0 no object
Object(t, ops, id) == [ptype |-> t, ops |-> ops, id |-> id]
Program(t, ops) == Object(t, ops, 1)
NoProgram == Object(None, <<>>, 0)

(***************************************************************************)
(* Gate vocabularies.  The canonical circuit is a Cirq circuit, so the     *)
(* canonical gate kinds carry Cirq's names.                                *)
(***************************************************************************)
FixedOneQubit == {"I", "X", "Y", "Z", "H", "S", "Sdg", "T", "Tdg"}
Rotations == {"Rx", "Ry", "Rz"}
FixedTwoQubit == {"CNOT", "CZ", "CY", "SWAP", "ISWAP"}
FixedThreeQubit == {"TOFFOLI", "FREDKIN"}
CanonicalKinds ==
    FixedOneQubit \cup Rotations \cup FixedTwoQubit \cup FixedThreeQubit
        \cup {"ZPow", "ZZPow", "MatrixGate"}

\* the fixed arity of a canonical kind; a matrix gate takes the arity of its use
KindArity(k) ==
    IF k \in FixedThreeQubit THEN 3
    ELSE IF k \in FixedTwoQubit \cup {"ZZPow"} THEN 2 ELSE 1

\* what a kind's argument is: "none", an "angle", an "exponent" or a "matrix"
KindArg(k) ==
    CASE k \in Rotations -> "angle"
      [] k \in {"ZPow", "ZZPow"} -> "exponent"
      [] k = "MatrixGate" -> "matrix"
      [] OTHER -> "none"

\* per-format dispatch tables: <<native gate, arity, canonical kind>>
CirqDispatch == {<<k, KindArity(k), k>> : k \in CanonicalKinds}

BraketDispatch ==
    { <<"i", 1, "I">>, <<"x", 1, "X">>, <<"y", 1, "Y">>, <<"z", 1, "Z">>,
      <<"h", 1, "H">>, <<"s", 1, "S">>, <<"si", 1, "Sdg">>, <<"t", 1, "T">>,
      <<"ti", 1, "Tdg">>, <<"rx", 1, "Rx">>, <<"ry", 1, "Ry">>, <<"rz", 1, "Rz">>,
      <<"phaseshift", 1, "ZPow">>, <<"cnot", 2, "CNOT">>, <<"cz", 2, "CZ">>,
      <<"cy", 2, "CY">>, <<"swap", 2, "SWAP">>, <<"iswap", 2, "ISWAP">>,
      <<"zz", 2, "ZZPow">>, <<"ccnot", 3, "TOFFOLI">>, <<"cswap", 3, "FREDKIN">>,
      <<"unitary", 1, "MatrixGate">> }
\* (braket's "v" has no entry: it is imported through its matrix)

PyquilDispatch ==
    { <<"I", 1, "I">>, <<"X", 1, "X">>, <<"Y", 1, "Y">>, <<"Z", 1, "Z">>,
      <<"H", 1, "H">>, <<"S", 1, "S">>, <<"T", 1, "T">>,
      <<"RX", 1, "Rx">>, <<"RY", 1, "Ry">>, <<"RZ", 1, "Rz">>,
      <<"PHASE", 1, "ZPow">>, <<"CNOT", 2, "CNOT">>, <<"CZ", 2, "CZ">>,
      <<"SWAP", 2, "SWAP">>, <<"ISWAP", 2, "ISWAP">>, <<"CCNOT", 3, "TOFFOLI">>,
      <<"CSWAP", 3, "FREDKIN">>, <<"DEFGATE", 1, "MatrixGate">> }

DispatchTable(fmt) ==
    CASE fmt = "cirq" -> CirqDispatch
      [] fmt = "braket" -> BraketDispatch
      [] fmt = "pyquil" -> PyquilDispatch
      [] OTHER -> {}

\* native instructions that are not unitary: no canonical gate, no matrix
NonUnitary(fmt) == IF fmt = "pyquil" THEN {"RESET"} ELSE {}

\* an exponent (quarters of a half turn) as the angle pi * exponent (eighths of pi)
AngleOfExponent(e) == 2 * e

\* an angle (eighths of pi) as the exponent angle / pi (quarters)
ExponentOfAngle(a) == a \div 2

(***************************************************************************)
(* Errors.  A message is what its f-string interpolates: one slot per      *)
(* value; a slot the message does not fill is None / NoProgram / NoOp.     *)
(***************************************************************************)
NoMessage ==
    [ptype |-> None, program |-> NoProgram, supported |-> {},
     conversion_type |-> None, construct |-> NoOp, gate_kind |-> None]

NoCause == [kind |-> None, msg |-> NoMessage]
NoError == [kind |-> None, msg |-> NoMessage, cause |-> NoCause]

\* raise kind(msg) from cause
Raise(kind, msg, cause) ==
    [kind |-> kind, msg |-> msg, cause |-> [kind |-> cause.kind, msg |-> cause.msg]]

\* type(program): the class of the program object
TypeOf(program) == program.ptype

(***************************************************************************)
(* Front-end importer (specification 4.1):                                 *)
(* import(source_program) -> (canonical circuit, qubit_map, param_map).    *)
(***************************************************************************)
\* `seen` extended with the labels of `items` not yet in it, in order
RECURSIVE FirstSeen(_, _)
FirstSeen(items, seen) ==
    IF items = <<>> THEN seen
    ELSE LET x == Head(items)
             known == \E i \in DOMAIN seen : seen[i] = x
         IN  FirstSeen(Tail(items), IF known THEN seen ELSE Append(seen, x))

\* the index a map gives a label: first seen gets 0, the next 1, ...
IndexOf(seen, x) == (CHOOSE i \in DOMAIN seen : seen[i] = x) - 1

\* a native qubit keeps its own label as its index
QubitIndexIsLabel(qubit_map, q) == q

\* the Qubit of a native qubit
QubitIndex(qubit_map, q) == IndexOf(qubit_map, q)

\* the canonical kind of a native gate: its dispatch entry by (gate, arity),
\* and the matrix gate when no entry matches
ImportKind(fmt, op) ==
    LET entries == {e \in DispatchTable(fmt) :
                       /\ e[1] = op.gate
                       /\ (e[2] = Len(op.qubits) \/ e[3] = "MatrixGate")}
    IN  IF entries = {} THEN "MatrixGate" ELSE (CHOOSE e \in entries : TRUE)[3]

\* the canonical argument of a native gate
ImportArg(fmt, op, kind, pmap) ==
    CASE op.arg.tag = "sym" -> ParamID(IndexOf(pmap, op.arg.name), op.arg.name)
      [] op.arg.tag = "lit" ->
            IF fmt # "cirq" /\ KindArg(kind) = "exponent"
            THEN Lit(ExponentOfAngle(op.arg.val))
            ELSE op.arg
      [] op.arg.tag = "matrix" -> op.arg
      [] OTHER -> IF kind = "MatrixGate" THEN Matrix(op.gate) ELSE NoArg

ImportFailure(fmt, op) ==
    [ok |-> FALSE, circuit |-> NoProgram, qubit_map |-> <<>>, param_map |-> <<>>,
     err |-> Raise("UnsupportedProgramError",
                   [NoMessage EXCEPT !.ptype = fmt, !.construct = op], NoError)]

RECURSIVE ImportOps(_, _, _, _, _)
ImportOps(fmt, ops, qmap, pmap, gates) ==
    IF ops = <<>>
    THEN [ok |-> TRUE, circuit |-> Object("cirq", gates, 2),
          qubit_map |-> qmap, param_map |-> pmap, err |-> NoError]
    ELSE LET op == Head(ops)
             qmap2 == FirstSeen(op.qubits, qmap)
             pmap2 == IF op.arg.tag = "sym" THEN FirstSeen(<<op.arg.name>>, pmap)
                      ELSE pmap
             kind == ImportKind(fmt, op)
             gate == Op(kind,
                        [i \in DOMAIN op.qubits |-> QubitIndex(qmap2, op.qubits[i])],
                        ImportArg(fmt, op, kind, pmap2))
         IN  IF op.gate \in NonUnitary(fmt)
             THEN ImportFailure(fmt, op)
             ELSE ImportOps(fmt, Tail(ops), qmap2, pmap2, Append(gates, gate))

convert_to_cirq(program) ==
    ImportOps(TypeOf(program), program.ops, <<>>, <<>>, <<>>)

(***************************************************************************)
(* Gate mapping tables and back-end exporter (specification 4.2, 4.3):     *)
(* export(circuit, target_format) -> target_program.                       *)
(***************************************************************************)
\* the strategy of a target for a canonical gate: "direct", "decomposition",
\* "raw" (the unitary-matrix fallback) or "gap".  An unbound parameter has no
\* numeric matrix, so a gate that carries one and needs its argument
\* re-parameterised (exponent to angle) has no entry at all.
GateMapping(target, gate) ==
    CASE gate.gate = "MatrixGate" -> "raw"
      [] target = "cirq" -> "direct"
      [] KindArg(gate.gate) = "exponent" /\ gate.arg.tag = "param" -> "gap"
      [] target = "pyquil" /\ gate.gate \in {"CY", "ZZPow"} -> "decomposition"
      [] OTHER -> "direct"

\* the native gate of a target that the dispatch table pairs with a kind
NativeGate(target, kind) ==
    (CHOOSE e \in DispatchTable(target) : e[3] = kind)[1]

\* the canonical argument handed on as it is, an exponent not turned into an angle
ExportArgKeepsExponent(target, gate) ==
    IF gate.arg.tag = "param" THEN Sym(gate.arg.name) ELSE gate.arg

\* the target argument of a canonical argument: an unbound parameter is
\* re-emitted as the target's symbol, a literal exponent becomes an angle
ExportArg(target, gate) ==
    CASE gate.arg.tag = "param" -> Sym(gate.arg.name)
      [] gate.arg.tag = "lit" ->
            IF target # "cirq" /\ KindArg(gate.gate) = "exponent"
            THEN Lit(AngleOfExponent(gate.arg.val))
            ELSE gate.arg
      [] OTHER -> gate.arg

\* the native gates a direct mapping constructs on the mapped qubits
DirectMapping(target, gate) ==
    CASE target = "pyquil" /\ gate.gate = "Sdg" -> <<Op("PHASE", gate.qubits, Lit(-4))>>
      [] target = "pyquil" /\ gate.gate = "Tdg" -> <<Op("PHASE", gate.qubits, Lit(-2))>>
      [] OTHER ->
            <<Op(NativeGate(target, gate.gate), gate.qubits, ExportArg(target, gate))>>

\* a decomposition that keeps only the rotation of the target qubit
DecompositionOnTargetOnly(target, gate) ==
    <<Op(IF gate.gate = "CY" THEN "PHASE" ELSE "RZ", <<gate.qubits[2]>>,
         IF gate.arg.tag = "lit" THEN Lit(AngleOfExponent(gate.arg.val))
         ELSE IF gate.arg.tag = "param" THEN Sym(gate.arg.name) ELSE Lit(4))>>

\* the documented decomposition sequences of the pyquil table
Decomposition(target, gate) ==
    LET c == <<gate.qubits[1]>>
        t == <<gate.qubits[2]>>
    IN  CASE gate.gate = "CY" ->
                <<Op("PHASE", t, Lit(-4)), Op("CNOT", gate.qubits, NoArg),
                  Op("PHASE", t, Lit(4))>>
          [] gate.gate = "ZZPow" ->
                <<Op("CNOT", gate.qubits, NoArg),
                  Op("RZ", t, IF gate.arg.tag = "lit"
                              THEN Lit(AngleOfExponent(gate.arg.val))
                              ELSE ExportArg(target, gate)),
                  Op("CNOT", gate.qubits, NoArg)>>
          [] OTHER -> <<>>

\* a fallback that leaves the gate out
RawUnitaryDropped(target, gate) == <<>>

\* the generic unitary-matrix gate carrying the full matrix
RawUnitary(target, gate) ==
    <<Op(NativeGate(target, "MatrixGate"), gate.qubits, gate.arg)>>

ExportGate(target, gate) ==
    LET strategy == GateMapping(target, gate)
    IN  CASE strategy = "direct" -> DirectMapping(target, gate)
          [] strategy = "decomposition" -> Decomposition(target, gate)
          [] strategy = "raw" -> RawUnitary(target, gate)
          [] OTHER -> <<>>

ExportFailure(target, gate) ==
    [ok |-> FALSE, program |-> NoProgram,
     err |-> Raise("ValueError",
                   [NoMessage EXCEPT !.conversion_type = target,
                                     !.gate_kind = gate.gate], NoError)]

RECURSIVE ExportOps(_, _, _)
ExportOps(target, gates, ops) ==
    IF gates = <<>>
    THEN [ok |-> TRUE, program |-> Object(target, ops, 3), err |-> NoError]
    ELSE IF GateMapping(target, Head(gates)) = "gap"
         THEN ExportFailure(target, Head(gates))
         ELSE ExportOps(target, Tail(gates), ops \o ExportGate(target, Head(gates)))

convert_from_cirq(circuit, conversion_type) ==
    ExportOps(conversion_type, circuit.ops, <<>>)

(***************************************************************************)
(* Circuit metadata (specification 3).                                     *)
(***************************************************************************)
Max(S) == CHOOSE x \in S : \A y \in S : y <= x

\* the qubit labels the operations touch
QubitsOf(ops) == UNION {{ops[i].qubits[j] : j \in DOMAIN ops[i].qubits} : i \in DOMAIN ops}

\* the labels of a program in first-seen order
RECURSIVE QubitOrder(_, _)
QubitOrder(ops, seen) ==
    IF ops = <<>> THEN seen ELSE QubitOrder(Tail(ops), FirstSeen(Head(ops).qubits, seen))

\* the free symbols of a program in first-seen order
RECURSIVE SymbolOrder(_, _)
SymbolOrder(ops, seen) ==
    IF ops = <<>> THEN seen
    ELSE SymbolOrder(Tail(ops),
                     IF Head(ops).arg.tag \in {"sym", "param"}
                     THEN FirstSeen(<<Head(ops).arg.name>>, seen) ELSE seen)

\* the distinct ParamIDs of a program: its free symbols, indexed as first seen
ParamsOf(program) ==
    LET order == SymbolOrder(program.ops, <<>>)
    IN  [i \in DOMAIN order |-> ParamID(i - 1, order[i])]

\* depth: a qubit's dependency chain extends by one at each gate touching it
RECURSIVE DepthChains(_, _)
DepthChains(ops, chain) ==
    IF ops = <<>> THEN chain
    ELSE LET qs == {Head(ops).qubits[j] : j \in DOMAIN Head(ops).qubits}
             d == 1 + Max({chain[q] : q \in qs} \cup {0})
         IN  DepthChains(Tail(ops), [q \in DOMAIN chain |-> IF q \in qs THEN d ELSE chain[q]])

Depth(ops) ==
    LET chain == DepthChains(ops, [q \in QubitsOf(ops) |-> 0])
    IN  Max({chain[q] : q \in DOMAIN chain} \cup {0})

NumQubits(program) == Cardinality(QubitsOf(program.ops))

(***************************************************************************)
(* The program wrapper (src/qbraid/transpiler/wrapper_abc.py).             *)
(***************************************************************************)
NoWrapper ==
    [created |-> FALSE, program |-> NoProgram, qubits |-> <<>>, num_qubits |-> 0,
     num_clbits |-> 0, depth |-> 0, params |-> <<>>, input_param_mapping |-> {},
     package |-> None]

\* QuantumProgramWrapper.__init__
init(program) ==
    [created |-> TRUE, program |-> program, qubits |-> <<>>, num_qubits |-> 0,
     num_clbits |-> 0, depth |-> 0, params |-> <<>>, input_param_mapping |-> {},
     package |-> None]

\* a wrapper subclass: the base constructor, then the metadata of its format
circuit_wrapper(program) ==
    LET order == SymbolOrder(program.ops, <<>>)
        n == NumQubits(program)
    IN  [init(program) EXCEPT
            !.qubits = [i \in 1..n |-> i - 1],
            !.num_qubits = n,
            !.depth = Depth(program.ops),
            !.params = ParamsOf(program),
            !.input_param_mapping =
                {<<order[i], ParamID(i - 1, order[i])>> : i \in DOMAIN order},
            !.package = TypeOf(program)]

\* the trace of a call that did not run the importer
NoImport ==
    [ok |-> FALSE, circuit |-> NoProgram, qubit_map |-> <<>>, param_map |-> <<>>,
     err |-> NoError]

\* the trace of a call that did not run the exporter
NoExport == [ok |-> FALSE, program |-> NoProgram, err |-> NoError]

NoCall ==
    [conversion_type |-> None, outcome |-> "none", ret |-> NoProgram, err |-> NoError,
     importer_calls |-> 0, exporter_calls |-> 0,
     exporter_args |-> [circuit |-> NoProgram, conversion_type |-> None],
     imported |-> NoImport, exported |-> NoExport]

\* the shortcut compares the target with the program object instead of the package
same_package_never(self, conversion_type) == FALSE

\* line 98: the test of the identity shortcut
same_package(self, conversion_type) == conversion_type = self.package

\* the import error is raised without `from err`
import_error_unchained(self, err) ==
    Raise("CircuitConversionError",
          [NoMessage EXCEPT !.ptype = TypeOf(self.program),
                            !.program = self.program,
                            !.supported = SUPPORTED_PROGRAM_TYPES],
          NoError)

\* lines 104-110: the error raised when the import step fails
import_error(self, err) ==
    Raise("CircuitConversionError",
          [NoMessage EXCEPT !.ptype = TypeOf(self.program),
                            !.program = self.program,
                            !.supported = SUPPORTED_PROGRAM_TYPES],
          err)

\* the circuit is handed over without its last operation
export_call_drops_last(cirq_circuit, conversion_type) ==
    [circuit |-> [cirq_circuit EXCEPT
                     !.ops = SubSeq(cirq_circuit.ops, 1, Len(cirq_circuit.ops) - 1)],
     conversion_type |-> conversion_type]

\* line 112: what convert_from_cirq is called with
export_call(cirq_circuit, conversion_type) ==
    [circuit |-> cirq_circuit, conversion_type |-> conversion_type]

\* the export message names the wrapper's format where the target belongs
export_error_names_source(conversion_type, err) ==
    Raise("CircuitConversionError",
          [NoMessage EXCEPT !.conversion_type = "cirq"],
          err)

\* lines 114-117: the error raised when the export step fails
export_error(conversion_type, err) ==
    Raise("CircuitConversionError",
          [NoMessage EXCEPT !.conversion_type = conversion_type],
          err)

\* the export error is swallowed and the intermediate circuit handed back
export_failed_returns_circuit(this, conversion_type, err) ==
    [this EXCEPT !.outcome = "returned", !.ret = this.exporter_args.circuit]

\* lines 113-117: the outcome of a call whose export step failed
export_failed(this, conversion_type, err) ==
    [this EXCEPT !.outcome = "raised", !.err = export_error(conversion_type, err)]

\* the wrong exception class for an unsupported target
unsupported_as_conversion_error(conversion_type) ==
    Raise("CircuitConversionError",
          [NoMessage EXCEPT !.conversion_type = conversion_type,
                            !.supported = SUPPORTED_PROGRAM_TYPES],
          NoError)

\* lines 120-124: the error raised for a target that is not supported
unsupported_error(conversion_type) ==
    Raise("UnsupportedProgramError",
          [NoMessage EXCEPT !.conversion_type = conversion_type,
                            !.supported = SUPPORTED_PROGRAM_TYPES],
          NoError)

\* QuantumProgramWrapper.transpile: the outcome of the call and what it invoked
transpile(self, conversion_type) ==
    LET this == [NoCall EXCEPT !.conversion_type = conversion_type]
        imported == convert_to_cirq(self.program)
        cirq_circuit == imported.circuit
        args == export_call(cirq_circuit, conversion_type)
        exported == convert_from_cirq(args.circuit, args.conversion_type)
        after_import == [this EXCEPT !.importer_calls = 1, !.imported = imported]
        after_export == [after_import EXCEPT !.exporter_calls = 1,
                                             !.exporter_args = args,
                                             !.exported = exported]
    IN  IF same_package(self, conversion_type)
        THEN [this EXCEPT !.outcome = "returned", !.ret = self.program]
        ELSE IF conversion_type \in SUPPORTED_PROGRAM_TYPES
        THEN IF ~imported.ok
             THEN [after_import EXCEPT !.outcome = "raised",
                                       !.err = import_error(self, imported.err)]
             ELSE IF ~exported.ok
             THEN export_failed(after_export, conversion_type, exported.err)
             ELSE [after_export EXCEPT !.outcome = "returned",
                                       !.ret = exported.program]
        ELSE [this EXCEPT !.outcome = "raised",
                          !.err = unsupported_error(conversion_type)]

(***************************************************************************)
(* The programs a wrapper is created on.                                   *)
(***************************************************************************)
\* the ordered choices of n distinct native qubits
Placements(n) ==
    {qs \in [1..n -> NativeQubits] : \A i, j \in 1..n : i # j => qs[i] # qs[j]}

\* the arguments a native gate is used with
NativeArgs(fmt, gate, kind) ==
    CASE KindArg(kind) = "angle" -> {Lit(4), Lit(-4), Sym("theta")}
      [] KindArg(kind) = "matrix" -> {Matrix("v")}
      [] kind = "ZPow" -> IF fmt = "cirq" THEN {Lit(1), Lit(-3), Sym("theta")}
                          ELSE {Lit(2), Lit(-6)}
      [] kind = "ZZPow" -> IF fmt = "cirq" THEN {Lit(2), Sym("theta")} ELSE {Lit(4)}
      [] OTHER -> {NoArg}

\* every single operation of a format
NativeOps(fmt) ==
    UNION {{Op(e[1], qs, a) : qs \in Placements(e[2]), a \in NativeArgs(fmt, e[1], e[3])} :
              e \in DispatchTable(fmt)}
    \cup {Op(g, qs, NoArg) : g \in NonUnitary(fmt), qs \in Placements(1)}
    \cup (IF fmt = "braket" THEN {Op("v", qs, NoArg) : qs \in Placements(1)} ELSE {})
    \cup {Op(NativeGate(fmt, "MatrixGate"), qs, Matrix("rotation")) : qs \in Placements(3)}

\* the operations longer programs are built from
CoreOps(fmt) ==
    CASE fmt = "cirq" ->
            {Op("H", <<1>>, NoArg), Op("CNOT", <<1, 6>>, NoArg), Op("CNOT", <<6, 1>>, NoArg),
             Op("Rz", <<1>>, Sym("theta")), Op("Ry", <<6>>, Sym("phi")),
             Op("ZPow", <<6>>, Sym("theta")), Op("T", <<6>>, NoArg)}
      [] fmt = "braket" ->
            {Op("h", <<1>>, NoArg), Op("cnot", <<1, 6>>, NoArg), Op("cnot", <<6, 1>>, NoArg),
             Op("rz", <<1>>, Sym("theta")), Op("ry", <<6>>, Sym("phi")),
             Op("zz", <<6, 1>>, Lit(4)), Op("v", <<6>>, NoArg)}
      [] fmt = "pyquil" ->
            {Op("H", <<1>>, NoArg), Op("CNOT", <<1, 0>>, NoArg), Op("CNOT", <<0, 1>>, NoArg),
             Op("RZ", <<1>>, Sym("theta")), Op("RY", <<0>>, Sym("phi")),
             Op("PHASE", <<0>>, Lit(2)), Op("RESET", <<0>>, NoArg)}
      [] OTHER -> {}

SeqsUpTo(S, n) == UNION {[1..k -> S] : k \in 0..n}

Programs ==
    UNION {{Program(fmt, ops) :
               ops \in {<<o>> : o \in NativeOps(fmt)} \cup SeqsUpTo(CoreOps(fmt), MaxOps)} :
           fmt \in SUPPORTED_PROGRAM_TYPES}

(***************************************************************************)
(* The other parts at rest.                                                *)
(***************************************************************************)
Threads == {1, 2}

\* a thread that holds no wrapper and has made no call
NoThread ==
    [wrapper |-> NoWrapper, conversion_type |-> None, pc |-> "idle",
     imported |-> NoImport, outcome |-> "none", ret |-> NoProgram, err |-> NoError,
     overlapped |-> FALSE]

\* the names transpile reads from its module
ModuleGlobals == [SUPPORTED_PROGRAM_TYPES |-> SUPPORTED_PROGRAM_TYPES]

ConcurrentAtRest == threads = [t \in Threads |-> NoThread] /\ globals = ModuleGlobals

NoFooter == [text |-> "", n |-> 0]
NoDeviceCall ==
    [fn |-> "none", query |-> {}, refresh |-> FALSE, reply |-> "none", before |-> <<>>,
     at |-> 0, reads |-> <<>>, outcome |-> "none", err |-> None, rows |-> <<>>,
     footer |-> NoFooter, lag |-> 0]
DevicesAtRest == collection = <<>> /\ now = 0 /\ device_call = NoDeviceCall

NoJobCall ==
    [fn |-> "none", args |-> <<>>, before |-> <<>>, outcome |-> "none", err |-> None,
     ret |-> None]
JobsAtRest == jobs = <<>> /\ job_call = NoJobCall

\* everything but the wrapper and its transpile call
besidesTranspiler == <<gateVars, concurrentVars, deviceVars, jobVars>>

(***************************************************************************)
(* The state machine: a wrapper is created on a program, then transpile is *)
(* called on it any number of times.                                       *)
(***************************************************************************)
Init ==
    /\ wrapper = NoWrapper
    /\ call = NoCall
    /\ GatesAtRest /\ ConcurrentAtRest /\ DevicesAtRest /\ JobsAtRest

\* QuantumProgramWrapper(program): the base class itself
Wrap(program) ==
    /\ ~wrapper.created
    /\ wrapper' = init(program)
    /\ UNCHANGED <<call, besidesTranspiler>>

\* qbraid.circuit_wrapper(program): the wrapper subclass of the program's format
WrapSubclass(program) ==
    /\ ~wrapper.created
    /\ wrapper' = circuit_wrapper(program)
    /\ UNCHANGED <<call, besidesTranspiler>>

\* transpile keeps the converted program in place of the wrapped one
TranspileCaching(conversion_type) ==
    /\ wrapper.created
    /\ call' = transpile(wrapper, conversion_type)
    /\ wrapper' = IF call'.outcome = "returned"
                  THEN [wrapper EXCEPT !.program = call'.ret]
                  ELSE wrapper
    /\ UNCHANGED besidesTranspiler

\* wrapper.transpile(conversion_type)
Transpile(conversion_type) ==
    /\ wrapper.created
    /\ call' = transpile(wrapper, conversion_type)
    /\ UNCHANGED <<wrapper, besidesTranspiler>>

Next ==
    \/ \E program \in Programs : Wrap(program)
    \/ \E program \in Programs : WrapSubclass(program)
    \/ \E conversion_type \in ConversionTypes : Transpile(conversion_type)

Spec == Init /\ [][Next]_vars

(***************************************************************************)
(* Equivalence oracle (specification 4.4).  Matrix entries are elements of *)
(* Z[w], w = exp(i pi / 4), written <<a0, a1, a2, a3>> for                 *)
(* a0 + a1 w + a2 w^2 + a3 w^3 (w^4 = -1).  A matrix is kept up to a       *)
(* positive real factor, which the comparison up to global phase ignores.  *)
(***************************************************************************)
Zero == <<0, 0, 0, 0>>

\* w^k
W(k) ==
    LET j == k % 8
    IN  [n \in 1..4 |-> IF j < 4 THEN (IF n = j + 1 THEN 1 ELSE 0)
                        ELSE (IF n = j - 3 THEN -1 ELSE 0)]

RAdd(x, y) == [n \in 1..4 |-> x[n] + y[n]]

RMul(x, y) ==
    << x[1] * y[1] - x[2] * y[4] - x[3] * y[3] - x[4] * y[2],
       x[1] * y[2] + x[2] * y[1] - x[3] * y[4] - x[4] * y[3],
       x[1] * y[3] + x[2] * y[2] + x[3] * y[1] - x[4] * y[4],
       x[1] * y[4] + x[2] * y[3] + x[3] * y[2] + x[4] * y[1] >>

\* complex conjugate: w^k goes to w^-k
RConj(x) == <<x[1], -x[4], -x[3], -x[2]>>

\* a matrix entry from its code: a negative code is 0, a code k >= 0 is w^k
Entry(code) == IF code < 0 THEN Zero ELSE W(code)

FromCodes(codes) ==
    [r \in DOMAIN codes |-> [c \in DOMAIN codes[r] |-> Entry(codes[r][c])]]

DotProduct(A, B, r, c) ==
    \* sum over k of A[r][k] * B[k][c], B given by its rows
    LET RECURSIVE Upto(_)
        Upto(k) == IF k = 0 THEN Zero ELSE RAdd(Upto(k - 1), RMul(A[r][k], B[k][c]))
    IN  Upto(Len(B))

MatMul(A, B) == [r \in DOMAIN A |-> [c \in DOMAIN B[1] |-> DotProduct(A, B, r, c)]]

\* the conjugate transpose
Dagger(A) == [r \in DOMAIN A |-> [c \in DOMAIN A |-> RConj(A[c][r])]]

Identity(d) == [r \in 1..d |-> [c \in 1..d |-> IF r = c THEN W(0) ELSE Zero]]

RECURSIVE MatPow(_, _)
MatPow(A, m) == IF m = 0 THEN Identity(Len(A)) ELSE MatMul(A, MatPow(A, m - 1))

RECURSIVE Pow2(_)
Pow2(n) == IF n = 0 THEN 1 ELSE 2 * Pow2(n - 1)

Diag2(a, b) == <<<<a, -1>>, <<-1, b>>>>
Diag4(a, b, c, d) ==
    <<<<a, -1, -1, -1>>, <<-1, b, -1, -1>>, <<-1, -1, c, -1>>, <<-1, -1, -1, d>>>>

\* the matrices of the named gates, as codes
PauliX == <<<<-1, 0>>, <<0, -1>>>>
PauliY == <<<<-1, 6>>, <<2, -1>>>>
Hadamard == <<<<0, 0>>, <<0, 4>>>>
SqrtX == <<<<1, 7>>, <<7, 1>>>>
ControlledX == <<<<0, -1, -1, -1>>, <<-1, 0, -1, -1>>, <<-1, -1, -1, 0>>, <<-1, -1, 0, -1>>>>
ControlledY == <<<<0, -1, -1, -1>>, <<-1, 0, -1, -1>>, <<-1, -1, -1, 6>>, <<-1, -1, 2, -1>>>>
Swap == <<<<0, -1, -1, -1>>, <<-1, -1, 0, -1>>, <<-1, 0, -1, -1>>, <<-1, -1, -1, 0>>>>
ISwap == <<<<0, -1, -1, -1>>, <<-1, -1, 2, -1>>, <<-1, 2, -1, -1>>, <<-1, -1, -1, 0>>>>

\* the identity on three qubits with the basis states a and b exchanged
Exchange(a, b) ==
    [r \in 1..8 |-> [c \in 1..8 |->
        IF (r = a /\ c = b) \/ (r = b /\ c = a) \/ (r = c /\ r \notin {a, b})
        THEN 0 ELSE -1]]
Toffoli == Exchange(7, 8)
Fredkin == Exchange(6, 7)

\* rotations by a quarter turn: exp(-i (pi/4) X) and exp(-i (pi/4) Y)
RxQuarter == <<<<0, 6>>, <<6, 0>>>>
RyQuarter == <<<<0, 4>>, <<0, 0>>>>

\* a rotation by the angle a (eighths of pi, a multiple of 4)
RotX(a) == MatPow(FromCodes(RxQuarter), (a \div 4) % 8)
RotY(a) == MatPow(FromCodes(RyQuarter), (a \div 4) % 8)
RotZ(a) == FromCodes(Diag2((0 - (a \div 4)) % 8, (a \div 4) % 8))

\* diag(1, exp(i a)) for the angle a (eighths of pi, even)
PhaseShift(a) == FromCodes(Diag2(0, (a \div 2) % 8))

\* sqrt(2) = w + w^7
Sqrt2 == RAdd(W(1), W(7))

\* the identity on three qubits with a rotation by pi / 4 in its first
\* 2 x 2 block, times sqrt(2)
Rotation ==
    [r \in 1..8 |-> [c \in 1..8 |->
        IF r <= 2 /\ c <= 2 THEN (IF r = 2 /\ c = 1 THEN W(4) ELSE W(0))
        ELSE IF r = c THEN Sqrt2 ELSE Zero]]

NamedMatrix(name) ==
    CASE name = "v" -> FromCodes(SqrtX)
      [] name = "rotation" -> Rotation
      [] OTHER -> Identity(2)

\* the matrix of a Cirq gate; an exponent e (quarters) is the phase w^e
CirqUnitary(op) ==
    CASE op.gate = "I" -> Identity(2)
      [] op.gate = "X" -> FromCodes(PauliX)
      [] op.gate = "Y" -> FromCodes(PauliY)
      [] op.gate = "Z" -> FromCodes(Diag2(0, 4))
      [] op.gate = "H" -> FromCodes(Hadamard)
      [] op.gate = "S" -> FromCodes(Diag2(0, 2))
      [] op.gate = "Sdg" -> FromCodes(Diag2(0, 6))
      [] op.gate = "T" -> FromCodes(Diag2(0, 1))
      [] op.gate = "Tdg" -> FromCodes(Diag2(0, 7))
      [] op.gate = "Rx" -> RotX(op.arg.val)
      [] op.gate = "Ry" -> RotY(op.arg.val)
      [] op.gate = "Rz" -> RotZ(op.arg.val)
      [] op.gate = "ZPow" -> FromCodes(Diag2(0, op.arg.val % 8))
      [] op.gate = "CNOT" -> FromCodes(ControlledX)
      [] op.gate = "CZ" -> FromCodes(Diag4(0, 0, 0, 4))
      [] op.gate = "CY" -> FromCodes(ControlledY)
      [] op.gate = "SWAP" -> FromCodes(Swap)
      [] op.gate = "ISWAP" -> FromCodes(ISwap)
      [] op.gate = "ZZPow" ->
            FromCodes(Diag4(0, op.arg.val % 8, op.arg.val % 8, 0))
      [] op.gate = "TOFFOLI" -> FromCodes(Toffoli)
      [] op.gate = "FREDKIN" -> FromCodes(Fredkin)
      [] op.gate = "MatrixGate" -> NamedMatrix(op.arg.name)

\* the matrix of a Braket gate; every argument is an angle
BraketUnitary(op) ==
    CASE op.gate = "i" -> Identity(2)
      [] op.gate = "x" -> FromCodes(PauliX)
      [] op.gate = "y" -> FromCodes(PauliY)
      [] op.gate = "z" -> FromCodes(Diag2(0, 4))
      [] op.gate = "h" -> FromCodes(Hadamard)
      [] op.gate = "s" -> FromCodes(Diag2(0, 2))
      [] op.gate = "si" -> FromCodes(Diag2(0, 6))
      [] op.gate = "t" -> FromCodes(Diag2(0, 1))
      [] op.gate = "ti" -> FromCodes(Diag2(0, 7))
      [] op.gate = "v" -> FromCodes(SqrtX)
      [] op.gate = "rx" -> RotX(op.arg.val)
      [] op.gate = "ry" -> RotY(op.arg.val)
      [] op.gate = "rz" -> RotZ(op.arg.val)
      [] op.gate = "phaseshift" -> PhaseShift(op.arg.val)
      [] op.gate = "cnot" -> FromCodes(ControlledX)
      [] op.gate = "cz" -> FromCodes(Diag4(0, 0, 0, 4))
      [] op.gate = "cy" -> FromCodes(ControlledY)
      [] op.gate = "swap" -> FromCodes(Swap)
      [] op.gate = "iswap" -> FromCodes(ISwap)
      [] op.gate = "zz" ->
            LET h == (op.arg.val \div 4) % 8
            IN  FromCodes(Diag4((0 - h) % 8, h, h, (0 - h) % 8))
      [] op.gate = "ccnot" -> FromCodes(Toffoli)
      [] op.gate = "cswap" -> FromCodes(Fredkin)
      [] op.gate = "unitary" -> NamedMatrix(op.arg.name)

\* the matrix of a pyQuil gate; every argument is an angle
PyquilUnitary(op) ==
    CASE op.gate = "I" -> Identity(2)
      [] op.gate = "X" -> FromCodes(PauliX)
      [] op.gate = "Y" -> FromCodes(PauliY)
      [] op.gate = "Z" -> FromCodes(Diag2(0, 4))
      [] op.gate = "H" -> FromCodes(Hadamard)
      [] op.gate = "S" -> FromCodes(Diag2(0, 2))
      [] op.gate = "T" -> FromCodes(Diag2(0, 1))
      [] op.gate = "RX" -> RotX(op.arg.val)
      [] op.gate = "RY" -> RotY(op.arg.val)
      [] op.gate = "RZ" -> RotZ(op.arg.val)
      [] op.gate = "PHASE" -> PhaseShift(op.arg.val)
      [] op.gate = "CNOT" -> FromCodes(ControlledX)
      [] op.gate = "CZ" -> FromCodes(Diag4(0, 0, 0, 4))
      [] op.gate = "SWAP" -> FromCodes(Swap)
      [] op.gate = "ISWAP" -> FromCodes(ISwap)
      [] op.gate = "CCNOT" -> FromCodes(Toffoli)
      [] op.gate = "CSWAP" -> FromCodes(Fredkin)
      [] op.gate = "DEFGATE" -> NamedMatrix(op.arg.name)

GateUnitary(fmt, op) ==
    CASE fmt = "cirq" -> CirqUnitary(op)
      [] fmt = "braket" -> BraketUnitary(op)
      [] fmt = "pyquil" -> PyquilUnitary(op)

\* bit of qubit q (0 the most significant of n) in the basis state x
Bit(x, q, n) == (x \div Pow2(n - 1 - q)) % 2

\* the basis state of a gate's own qubits that the basis state x restricts to
RECURSIVE Local(_, _, _)
Local(x, qs, n) ==
    IF qs = <<>> THEN 0
    ELSE Bit(x, Head(qs), n) * Pow2(Len(qs) - 1) + Local(x, Tail(qs), n)

\* a gate on the qubits qs of n: its matrix tensored with the identity on
\* the qubits it does not touch
Placed(G, qs, n) ==
    LET touched == {qs[j] : j \in DOMAIN qs}
        d == Pow2(n)
    IN  [r \in 1..d |-> [c \in 1..d |->
            IF \A q \in (0..(n - 1)) \ touched : Bit(r - 1, q, n) = Bit(c - 1, q, n)
            THEN G[Local(r - 1, qs, n) + 1][Local(c - 1, qs, n) + 1]
            ELSE Zero]]

\* gate unitaries composed in circuit order; `order` lists the program's
\* qubits, the qubit at position i being placed at index i - 1
RECURSIVE Compose(_, _, _, _, _)
Compose(fmt, ops, order, n, U) ==
    IF ops = <<>> THEN U
    ELSE LET op == Head(ops)
             qs == [j \in DOMAIN op.qubits |-> IndexOf(order, op.qubits[j])]
         IN  Compose(fmt, Tail(ops), order, n,
                     MatMul(Placed(GateUnitary(fmt, op), qs, n), U))

to_unitary(program, order) ==
    Compose(program.ptype, program.ops, order, Len(order), Identity(Pow2(Len(order))))

\* u1 and u2 are equal up to a global phase: u1 . u2^dagger is a nonzero
\* multiple of the identity
equal_unitaries(u1, u2) ==
    /\ Len(u1) = Len(u2)
    /\ LET P == MatMul(u1, Dagger(u2))
       IN  /\ P[1][1] # Zero
           /\ \A r, c \in DOMAIN P : P[r][c] = (IF r = c THEN P[1][1] ELSE Zero)

(***************************************************************************)
(* Properties.                                                             *)
(***************************************************************************)
Called == call.outcome # "none"

\* C2. Identity shortcut: a call whose target equals the wrapper's package
\* returns the very program object the wrapper holds, and invokes neither
\* the importer nor the exporter.
IdentityShortcut ==
    (Called /\ call.conversion_type = wrapper.package) =>
        /\ call.outcome = "returned"
        /\ call.ret = wrapper.program
        /\ call.ret.id = wrapper.program.id
        /\ call.err = NoError
        /\ call.importer_calls = 0
        /\ call.exporter_calls = 0

\* a subclass wrapper was asked for its own format
IdentityShortcutWitness ==
    /\ Called
    /\ wrapper.package \in SUPPORTED_PROGRAM_TYPES
    /\ call.conversion_type = wrapper.package
    /\ Len(wrapper.program.ops) = MaxOps

\* C3. Unsupported target: a call with a tag that is not a supported program
\* type raises UnsupportedProgramError at once: importer and exporter are
\* not invoked and no program is returned.
UnsupportedTarget ==
    (Called /\ call.conversion_type \notin SUPPORTED_PROGRAM_TYPES) =>
        /\ call.outcome = "raised"
        /\ call.err.kind = "UnsupportedProgramError"
        /\ call.err.msg.conversion_type = call.conversion_type
        /\ call.importer_calls = 0
        /\ call.exporter_calls = 0
        /\ call.ret = NoProgram

UnsupportedTargetWitness ==
    /\ Called
    /\ call.conversion_type \in UnregisteredTypes
    /\ call.outcome = "raised"
    /\ wrapper.package \in SUPPORTED_PROGRAM_TYPES

\* C7. Atomic outcome: a call either returns a complete program (the wrapped
\* one, or the export of the whole imported source) and no error, or raises
\* and returns nothing; after a failed export neither the intermediate
\* circuit nor a partial target program is returned.
AtomicOutcome ==
    Called =>
        \/ /\ call.outcome = "returned"
           /\ call.err = NoError
           /\ \/ call.ret = wrapper.program /\ call.importer_calls = 0
              \/ /\ call.imported.ok /\ call.exported.ok
                 /\ call.ret = call.exported.program
                 /\ call.ret.id = 3
                 /\ call.ret.ptype = call.conversion_type
                 /\ Len(call.imported.circuit.ops) = Len(wrapper.program.ops)
                 /\ Len(call.ret.ops) >= Len(call.imported.circuit.ops)
        \/ /\ call.outcome = "raised"
           /\ call.err.kind # None
           /\ call.ret = NoProgram
           /\ ~(call.imported.ok /\ call.exported.ok)

\* the import succeeded and the export failed on a later gate of the circuit
AtomicOutcomeWitness ==
    /\ call.outcome = "raised"
    /\ call.imported.ok
    /\ call.exporter_calls = 1
    /\ Len(call.imported.circuit.ops) = MaxOps
    /\ call.ret = NoProgram

\* C8. transpile does not mutate the wrapper: no step taken on a created
\* wrapper changes its program, qubits, num_qubits, num_clbits, depth,
\* params, input_param_mapping or package.
TranspileKeepsWrapper ==
    [][wrapper.created =>
          /\ wrapper'.program = wrapper.program
          /\ wrapper'.qubits = wrapper.qubits
          /\ wrapper'.num_qubits = wrapper.num_qubits
          /\ wrapper'.num_clbits = wrapper.num_clbits
          /\ wrapper'.depth = wrapper.depth
          /\ wrapper'.params = wrapper.params
          /\ wrapper'.input_param_mapping = wrapper.input_param_mapping
          /\ wrapper'.package = wrapper.package]_vars

\* a subclass wrapper with computed metadata after a successful conversion
TranspileKeepsWrapperWitness ==
    /\ call.outcome = "returned"
    /\ call.exporter_calls = 1
    /\ wrapper.num_qubits = 2
    /\ wrapper.params # <<>>
ImportFailed == Called /\ call.importer_calls = 1 /\ ~call.imported.ok
ExportFailed == Called /\ call.exporter_calls = 1 /\ ~call.exported.ok
Converted == call.outcome = "returned" /\ call.exporter_calls = 1

\* a message names a construct when it gives that construct, or prints a
\* program that consists of it alone
Names(msg, construct) == msg.construct = construct \/ msg.program.ops = <<construct>>

ExportErrorNamesGateKind ==
    ExportFailed =>
        /\ call.outcome = "raised"
        /\ call.err.kind = "CircuitConversionError"
        /\ call.err.msg.conversion_type = call.conversion_type
        /\ call.err.msg.gate_kind = call.exported.err.msg.gate_kind

\* C5 as amended. Exporter failure after a successful import: transpile
\* raises CircuitConversionError whose message names the target format and
\* nothing else; the exporter's own error is chained as its cause.
ExportErrorNamesTarget ==
    ExportFailed =>
        /\ call.imported.ok
        /\ call.outcome = "raised"
        /\ call.err.kind = "CircuitConversionError"
        /\ call.err.msg = [NoMessage EXCEPT !.conversion_type = call.conversion_type]
        /\ call.err.cause.kind = call.exported.err.kind
        /\ call.err.cause.msg = call.exported.err.msg
        /\ call.ret = NoProgram

\* a gate with no entry in the target's table made the export fail
ExportErrorWitness ==
    /\ ExportFailed
    /\ call.conversion_type = "pyquil"
    /\ call.exported.err.msg.gate_kind = "ZZPow"

HasReset(program) == \E i \in DOMAIN program.ops : program.ops[i].gate = "RESET"

\* C6 as stated. Converting a program that contains a reset instruction
\* raises UnsupportedProgramError naming that instruction, and returns no
\* partial canonical circuit.
ResetRaisesUnsupportedProgramError ==
    (Called /\ call.importer_calls = 1 /\ HasReset(wrapper.program)) =>
        /\ call.outcome = "raised"
        /\ call.err.kind = "UnsupportedProgramError"
        /\ call.err.msg.construct.gate = "RESET"
        /\ call.ret = NoProgram
Imported == Called /\ call.importer_calls = 1 /\ call.imported.ok

\* native qubit a is used in the operations before native qubit b is
UsedBefore(ops, a, b) ==
    \E i \in DOMAIN ops : \E j \in DOMAIN ops[i].qubits :
        /\ ops[i].qubits[j] = a
        /\ \A k \in DOMAIN ops : \A l \in DOMAIN ops[k].qubits :
              ops[k].qubits[l] = b => (i < k \/ (i = k /\ j < l))

\* C9. Qubit index mapping: one import gives the native qubits the indices
\* 0, 1, 2, ... in first-seen program order; the mapping is a bijection from
\* the program's native qubits onto [0, num_qubits), and every gate of the
\* circuit acts on the indices of its operation's qubits, all within range.
QubitIndexMapping ==
    Imported =>
        LET qubit_map == call.imported.qubit_map
            ops == wrapper.program.ops
            gates == call.imported.circuit.ops
            n == Len(qubit_map)
        IN  /\ {qubit_map[i] : i \in 1..n} = QubitsOf(ops)
            /\ \A i, j \in 1..n : i # j => qubit_map[i] # qubit_map[j]
            /\ n = NumQubits(wrapper.program)
            /\ \A i, j \in 1..n : i < j => UsedBefore(ops, qubit_map[i], qubit_map[j])
            /\ Len(gates) = Len(ops)
            /\ \A k \in DOMAIN gates :
                  /\ Len(gates[k].qubits) = Len(ops[k].qubits)
                  /\ \A j \in DOMAIN gates[k].qubits :
                        /\ gates[k].qubits[j] \in 0..(n - 1)
                        /\ qubit_map[gates[k].qubits[j] + 1] = ops[k].qubits[j]

\* line qubits 6 and 1, seen in that order, became 0 and 1
QubitIndexMappingWitness ==
    /\ Imported
    /\ call.imported.qubit_map = <<6, 1>>
    /\ Len(wrapper.program.ops) = MaxOps

\* the number of operations whose argument is a free symbol
RECURSIVE SymCount(_)
SymCount(ops) ==
    IF ops = <<>> THEN 0
    ELSE (IF Head(ops).arg.tag \in {"sym", "param"} THEN 1 ELSE 0) + SymCount(Tail(ops))

\* the parameter map the exporter is handed, empty when it is handed none
Forwarded(args) == IF "param_map" \in DOMAIN args THEN args.param_map ELSE <<>>

PreservesQubitsAndParams ==
    /\ NumQubits(call.ret) = NumQubits(wrapper.program)
    /\ ParamsOf(call.ret) = ParamsOf(wrapper.program)
    /\ SymCount(call.ret.ops) >= SymCount(wrapper.program.ops)

\* C10 as stated. Every conversion keeps num_qubits and the set of distinct
\* ParamIDs, turns no unbound parameter into a literal, and hands the
\* importer's parameter mapping on to the exporter.
ParamMapReachesExporter ==
    Converted =>
        /\ PreservesQubitsAndParams
        /\ Forwarded(call.exporter_args) = call.imported.param_map

\* C10 as amended. Every conversion keeps num_qubits and the set of distinct
\* ParamIDs and turns no unbound parameter into a literal; the exporter is
\* handed the importer's circuit and the target tag only (the importer's
\* second result is discarded), so the parameters reach it as the arguments
\* of the circuit's gates and in no mapping.
ParamsTravelInCircuit ==
    Converted =>
        /\ PreservesQubitsAndParams
        /\ DOMAIN call.exporter_args = {"circuit", "conversion_type"}
        /\ call.exporter_args.circuit = call.imported.circuit
        /\ call.exporter_args.conversion_type = call.conversion_type
        /\ ParamsOf(call.exporter_args.circuit) = ParamsOf(wrapper.program)
        /\ Len(call.imported.param_map) = Len(ParamsOf(wrapper.program))

\* a program with two free parameters was converted to another format
ParamsTravelInCircuitWitness ==
    /\ Converted
    /\ call.imported.param_map = <<"phi", "theta">>
    /\ NumQubits(call.ret) = 2
    /\ call.ret.ptype # wrapper.program.ptype

\* the qubit indices 0 .. n - 1 in their own order
IndexOrder(n) == [i \in 1..n |-> i - 1]

\* the unitary of the wrapped program, each native qubit placed at the index
\* the importer gave it, against the unitary of the converted program
SameUnitary ==
    equal_unitaries(to_unitary(wrapper.program, call.imported.qubit_map),
                    to_unitary(call.ret, IndexOrder(Len(call.imported.qubit_map))))

RECURSIVE MatricesOf(_, _)
MatricesOf(ops, gate) ==
    IF ops = <<>> THEN <<>>
    ELSE (IF Head(ops).gate = gate THEN <<<<Head(ops).qubits, Head(ops).arg>>>> ELSE <<>>)
         \o MatricesOf(Tail(ops), gate)

\* the exporter was called on an imported circuit
Exported == Imported /\ call.exporter_calls = 1

Pi == 8

\* rzz is called with the angles 2 k (pi / 8), |k| <= ThetaMax
ThetaMax == 24
\* _qasm_ is called on exponents up to ExponentMax quarters either way
ExponentMax == 8
\* and global shifts up to ShiftMax halves either way
ShiftMax == 2

Thetas == {2 * k : k \in (0 - ThetaMax)..ThetaMax}
Exponents == (0 - ExponentMax)..ExponentMax
GlobalShifts == (0 - ShiftMax)..ShiftMax
QasmQubits == {0, 1}

Gate(cls, n, angles, theta) ==
    [cls |-> cls, num_qubits |-> n, angles |-> angles, theta |-> theta]

IdentityGate(n) == Gate("IdentityGate", n, <<>>, 0)
TwoQubitDiagonalGate(angles) == Gate("TwoQubitDiagonalGate", 2, angles, 0)
\* RZZGate.__init__ and _num_qubits_
RZZGate(theta) == Gate("RZZGate", 2, <<>>, theta)

\* an angle as a phase: modulo a full turn
Phase(a) == a % (2 * Pi)

\* RZZGate._unitary_: the diagonal exp(-+ i theta / 2)
RZZGate_unitary_(self) ==
    LET itheta2 == self.theta \div 2
    IN  <<Phase(0 - itheta2), Phase(itheta2), Phase(itheta2), Phase(0 - itheta2)>>

\* cirq.unitary(gate)
unitary(gate) ==
    CASE gate.cls = "IdentityGate" -> [i \in 1..Pow2(gate.num_qubits) |-> Phase(0)]
      [] gate.cls = "TwoQubitDiagonalGate" ->
            [i \in DOMAIN gate.angles |-> Phase(gate.angles[i])]
      [] gate.cls = "RZZGate" -> RZZGate_unitary_(gate)

\* rzz with a full turn taken for no turn at all
rzz_full_turn_is_identity(theta) ==
    IF theta = 0 \/ theta = 2 * Pi THEN IdentityGate(2) ELSE RZZGate(theta)

rzz(theta) ==
    IF theta = 0 THEN IdentityGate(2)
    ELSE IF theta = 2 * Pi THEN TwoQubitDiagonalGate([i \in 1..4 |-> Pi])
    ELSE RZZGate(theta)

\* ops.ZPowGate(exponent=..., global_shift=...)
ZPowGate(exponent, global_shift) == [exponent |-> exponent, global_shift |-> global_shift]

\* the unitary of a Z-power gate:
\* exp(i pi exponent global_shift) diag(1, exp(i pi exponent))
ZPowGate_unitary(self) ==
    LET shift == self.exponent * self.global_shift
    IN  <<Phase(shift), Phase(shift + (Pi * self.exponent) \div 4)>>

\* one QASM instruction: its name, its angle parameters, its qubit
Instruction(name, params, qubit) == [name |-> name, params |-> params, qubit |-> qubit]

\* the format field half_turns: "pi*" followed by the value, an angle
half_turns(value) == (Pi * value) \div 4

\* the result of _qasm_: a string of instructions, or None
Qasm(lines) == [is_none |-> FALSE, lines |-> lines]
QasmNone == [is_none |-> TRUE, lines |-> <<>>]

\* only the full half turn has a name
named_gate_z_only(exponent) == IF exponent = 4 THEN "z" ELSE None

\* the fixed-angle gate of an exponent (0.25, -0.25, 0.5, -0.5, 1), if any
named_gate(exponent) ==
    CASE exponent = 1 -> "t"
      [] exponent = -1 -> "tdg"
      [] exponent = 2 -> "s"
      [] exponent = -2 -> "sdg"
      [] exponent = 4 -> "z"
      [] OTHER -> None

\* a _qasm_ that declines every gate with a global shift
ZPowGate_qasm_declines_shift(self, qubits) ==
    IF self.global_shift = 0
    THEN Qasm(<<Instruction("p", <<half_turns(self.exponent)>>, qubits[1])>>)
    ELSE QasmNone

\* ZPowGate._qasm_(self, args, qubits), args being QASM 2.0 arguments
ZPowGate_qasm_(self, qubits) ==
    IF self.global_shift = 0
    THEN IF named_gate(self.exponent) # None
         THEN Qasm(<<Instruction(named_gate(self.exponent), <<>>, qubits[1])>>)
         ELSE Qasm(<<Instruction("p", <<half_turns(self.exponent)>>, qubits[1])>>)
    ELSE Qasm(<<Instruction("rz", <<half_turns(self.exponent)>>, qubits[1])>>)

\* the unitary of a QASM 2.0 instruction on one qubit
QasmUnitary(instr) ==
    CASE instr.name = "t" -> <<Phase(0), Phase(Pi \div 4)>>
      [] instr.name = "tdg" -> <<Phase(0), Phase(0 - (Pi \div 4))>>
      [] instr.name = "s" -> <<Phase(0), Phase(Pi \div 2)>>
      [] instr.name = "sdg" -> <<Phase(0), Phase(0 - (Pi \div 2))>>
      [] instr.name = "z" -> <<Phase(0), Phase(Pi)>>
      [] instr.name = "p" -> <<Phase(0), Phase(instr.params[1])>>
      [] instr.name = "rz" ->
            <<Phase(0 - (instr.params[1] \div 2)), Phase(instr.params[1] \div 2)>>

\* two diagonals are equal up to a global phase
EqualUpToPhase(u, v) ==
    /\ Len(u) = Len(v)
    /\ \A i \in DOMAIN u : Phase((u[i] - u[1]) - (v[i] - v[1])) = 0

TranspilerAtRest == wrapper = NoWrapper /\ call = NoCall

\* everything but the last call into cirq_qasm_gates
besidesGates == <<transpilerVars, concurrentVars, deviceVars, jobVars>>

GatesInit ==
    TranspilerAtRest /\ GatesAtRest /\ ConcurrentAtRest /\ DevicesAtRest /\ JobsAtRest

\* rzz(theta)
Rzz(theta) ==
    /\ gate_call' = [NoGateCall EXCEPT !.fn = "rzz", !.theta = theta, !.gate = rzz(theta)]
    /\ UNCHANGED besidesGates

\* ZPowGate(exponent, global_shift)._qasm_(args, (qubit,))
QasmOf(exponent, global_shift, qubit) ==
    LET out == ZPowGate_qasm_(ZPowGate(exponent, global_shift), <<qubit>>)
    IN  /\ gate_call' = [NoGateCall EXCEPT !.fn = "_qasm_", !.exponent = exponent,
                                           !.global_shift = global_shift,
                                           !.qubit = qubit, !.qasm = out.lines,
                                           !.returned_none = out.is_none]
        /\ UNCHANGED besidesGates

GatesNext ==
    \/ \E theta \in Thetas : Rzz(theta)
    \/ \E exponent \in Exponents, global_shift \in GlobalShifts, qubit \in QasmQubits :
          QasmOf(exponent, global_shift, qubit)

SpecGates == GatesInit /\ [][GatesNext]_vars

\* rzz has returned
RzzReturned == gate_call.fn = "rzz"

\* C19. For every angle theta the gate rzz(theta) returns acts on exactly two
\* qubits and has the unitary of RZZGate(theta), the diagonal
\* exp(-i theta/2), exp(i theta/2), exp(i theta/2), exp(-i theta/2); for
\* theta = 0 it is the two-qubit identity gate and for theta = 2 pi the
\* two-qubit diagonal gate whose four phase angles are pi.
RzzUnitary ==
    RzzReturned =>
        LET theta == gate_call.theta
            half == theta \div 2
        IN  /\ gate_call.gate.num_qubits = 2
            /\ unitary(gate_call.gate) = unitary(RZZGate(theta))
            /\ unitary(gate_call.gate)
                  = <<Phase(0 - half), Phase(half), Phase(half), Phase(0 - half)>>
            /\ theta = 0 => gate_call.gate = IdentityGate(2)
            /\ theta = 2 * Pi => gate_call.gate = TwoQubitDiagonalGate(<<Pi, Pi, Pi, Pi>>)

\* rzz(2 pi): the diagonal gate, minus the identity as RZZGate(2 pi) is
RzzUnitaryWitness ==
    /\ RzzReturned
    /\ gate_call.theta = 2 * Pi
    /\ gate_call.gate.cls = "TwoQubitDiagonalGate"
    /\ unitary(gate_call.gate) = <<Pi, Pi, Pi, Pi>>
    /\ unitary(RZZGate(2 * Pi)) = <<Pi, Pi, Pi, Pi>>

\* _qasm_ has returned a string of exactly one instruction
QasmReturned == gate_call.fn = "_qasm_"
OneInstruction == QasmReturned /\ ~gate_call.returned_none /\ Len(gate_call.qasm) = 1

NamedGates == {"t", "tdg", "s", "sdg", "z"}
ParametricRotations == {"p", "rz"}

\* a quarter, a half and a full turn of the Z axis (exponents 0.25, 0.5, 1)
\* and their negatives
WellKnownAngles == {1, -1, 2, -2, 4, -4}

\* C12 as stated. Tie-break of a Z-power gate emitted as QASM: whenever the
\* exponent equals a well-known angle (quarter, half or full turn or a
\* negative of these) a named fixed-angle gate is emitted, and for every
\* other exponent the general parametric rotation.
NamedGateForWellKnownAngle ==
    QasmReturned =>
        /\ OneInstruction
        /\ IF gate_call.exponent \in WellKnownAngles
           THEN gate_call.qasm[1].name \in NamedGates
           ELSE gate_call.qasm[1].name \in ParametricRotations

\* C12 as amended. A named fixed-angle gate is emitted exactly when the global
\* shift is 0 and the exponent is one of 0.25, -0.25, 0.5, -0.5, 1 (t, tdg,
\* s, sdg, z in this order); for every other exponent, the exponent -1
\* included, and for every exponent of a gate with a nonzero global shift,
\* the general parametric rotation is emitted.
NamedGateForListedExponent ==
    QasmReturned =>
        /\ OneInstruction
        /\ LET name == gate_call.qasm[1].name
               exponent == gate_call.exponent
           IN  IF gate_call.global_shift = 0 /\ exponent \in {1, -1, 2, -2, 4}
               THEN name = (CASE exponent = 1 -> "t" [] exponent = -1 -> "tdg"
                              [] exponent = 2 -> "s" [] exponent = -2 -> "sdg"
                              [] exponent = 4 -> "z")
               ELSE name \in ParametricRotations

\* the exponent -0.5 with no global shift is emitted as sdg
NamedGateWitness ==
    /\ OneInstruction
    /\ gate_call.global_shift = 0
    /\ gate_call.exponent = -2
    /\ gate_call.qasm[1].name = "sdg"

\* C20. For every exponent and every global shift _qasm_ emits exactly one
\* instruction, on the gate's qubit, whose unitary equals that of the Z-power
\* gate up to a global phase: t, tdg, s, sdg, z or p(pi * exponent) when the
\* global shift is 0 and rz(pi * exponent) when it is not; it never returns
\* an empty string or None.
QasmOneInstruction ==
    QasmReturned =>
        /\ OneInstruction
        /\ LET instr == gate_call.qasm[1]
               turn == <<half_turns(gate_call.exponent)>>
           IN  /\ instr.qubit = gate_call.qubit
               /\ EqualUpToPhase(QasmUnitary(instr),
                                 ZPowGate_unitary(ZPowGate(gate_call.exponent,
                                                           gate_call.global_shift)))
               /\ IF gate_call.global_shift = 0
                  THEN instr.name \in NamedGates \/ (instr.name = "p" /\ instr.params = turn)
                  ELSE instr.name = "rz" /\ instr.params = turn

\* the exponent 0.5 with global shift -0.5 (cirq.rz) is emitted as rz(pi*0.5)
QasmOneInstructionWitness ==
    /\ OneInstruction
    /\ gate_call.global_shift = -1
    /\ gate_call.exponent = 2
    /\ gate_call.qubit = 1
    /\ gate_call.qasm = <<Instruction("rz", <<Pi \div 2>>, 1)>>

\* every gate of the imported circuit is exported through a direct mapping
AllDirect ==
    \A i \in DOMAIN call.imported.circuit.ops :
        GateMapping(call.conversion_type, call.imported.circuit.ops[i]) = "direct"

\* C13. Depth monotonicity: the depth of the exported circuit, the longest
\* qubit-wise dependency chain recomputed from its gate sequence, is at least
\* the depth of the canonical circuit, and equal to it when every gate was
\* exported through a direct mapping.
DepthMonotone ==
    Converted =>
        LET exported == circuit_wrapper(call.ret).depth
            canonical == circuit_wrapper(call.imported.circuit).depth
        IN  /\ exported >= canonical
            /\ AllDirect => exported = canonical

\* h; zz of Braket converted to pyQuil: the decomposition of zz deepens it
DepthMonotoneWitness ==
    /\ Converted
    /\ call.conversion_type = "pyquil"
    /\ Len(call.imported.circuit.ops) = 2
    /\ ~AllDirect
    /\ circuit_wrapper(call.imported.circuit).depth = 2
    /\ circuit_wrapper(call.ret).depth = 4

(***************************************************************************)
(* Concurrent conversions: each thread calls transpile on a wrapper of its *)
(* own; a call advances from one line that calls out to the next           *)
(* (98-100, 102, 112), the threads interleaving between them.              *)
(***************************************************************************)
\* the programs the threads' wrappers hold: two conversions that number the
\* same qubits in opposite orders, an export failure and an import failure
ConcurrentPrograms ==
    { Program("cirq", <<Op("CNOT", <<1, 6>>, NoArg)>>),
      Program("cirq", <<Op("CNOT", <<6, 1>>, NoArg), Op("H", <<1>>, NoArg)>>),
      Program("cirq", <<Op("ZPow", <<6>>, Sym("theta"))>>),
      Program("pyquil", <<Op("H", <<1>>, NoArg), Op("RESET", <<0>>, NoArg)>>) }

\* an import that keeps its qubit index in the module and resumes from it
import_step_shared_index(shared, program) ==
    LET seen == IF "qubit_map" \in DOMAIN shared THEN shared.qubit_map ELSE <<>>
        result == ImportOps(TypeOf(program), program.ops, seen, <<>>, <<>>)
    IN  [result |-> result,
         globals |-> [SUPPORTED_PROGRAM_TYPES |-> shared.SUPPORTED_PROGRAM_TYPES,
                      qubit_map |-> IF result.ok THEN result.qubit_map ELSE seen]]

\* line 102: the import step and what it leaves in the module globals
import_step(shared, program) ==
    [result |-> convert_to_cirq(program), globals |-> shared]

\* another thread is inside a call
Overlaps(t) == \E u \in Threads \ {t} : threads[u].pc \notin {"idle", "done"}

Returns(thread, program) ==
    [thread EXCEPT !.pc = "done", !.outcome = "returned", !.ret = program]

Raises(thread, err) ==
    [thread EXCEPT !.pc = "done", !.outcome = "raised", !.err = err]

\* everything but the concurrent calls
besidesConcurrent == <<transpilerVars, gateVars, deviceVars, jobVars>>

ConcurrentInit ==
    /\ threads \in [Threads -> {[NoThread EXCEPT !.wrapper = circuit_wrapper(program)] :
                                   program \in ConcurrentPrograms}]
    /\ globals = ModuleGlobals
    /\ TranspilerAtRest /\ GatesAtRest /\ DevicesAtRest /\ JobsAtRest

\* thread t calls transpile(conversion_type) on its wrapper
CallTranspile(t, conversion_type) ==
    /\ threads[t].pc \in {"idle", "done"}
    /\ threads' = [threads EXCEPT ![t] =
                      [NoThread EXCEPT !.wrapper = threads[t].wrapper,
                                       !.conversion_type = conversion_type,
                                       !.pc = "line98"]]
    /\ UNCHANGED <<globals, besidesConcurrent>>

\* lines 98-100 and 120-124: the identity shortcut and the test of the target
CheckTarget(t) ==
    LET self == threads[t].wrapper
        conversion_type == threads[t].conversion_type
        this == [threads[t] EXCEPT !.overlapped = Overlaps(t)]
    IN  /\ threads[t].pc = "line98"
        /\ threads' = [threads EXCEPT ![t] =
              IF same_package(self, conversion_type)
              THEN Returns(this, self.program)
              ELSE IF conversion_type \in globals.SUPPORTED_PROGRAM_TYPES
              THEN [this EXCEPT !.pc = "line102"]
              ELSE Raises(this, unsupported_error(conversion_type))]
        /\ UNCHANGED <<globals, besidesConcurrent>>

\* lines 101-110: the import step
ImportStep(t) ==
    LET self == threads[t].wrapper
        step == import_step(globals, self.program)
        this == [threads[t] EXCEPT !.overlapped = @ \/ Overlaps(t),
                                   !.imported = step.result]
    IN  /\ threads[t].pc = "line102"
        /\ globals' = step.globals
        /\ threads' = [threads EXCEPT ![t] =
              IF step.result.ok THEN [this EXCEPT !.pc = "line112"]
              ELSE Raises(this, import_error(self, step.result.err))]
        /\ UNCHANGED besidesConcurrent

\* lines 111-118: the export step
ExportStep(t) ==
    LET conversion_type == threads[t].conversion_type
        args == export_call(threads[t].imported.circuit, conversion_type)
        exported == convert_from_cirq(args.circuit, args.conversion_type)
        this == [threads[t] EXCEPT !.overlapped = @ \/ Overlaps(t)]
    IN  /\ threads[t].pc = "line112"
        /\ threads' = [threads EXCEPT ![t] =
              IF exported.ok THEN Returns(this, exported.program)
              ELSE Raises(this, export_error(conversion_type, exported.err))]
        /\ UNCHANGED <<globals, besidesConcurrent>>

ConcurrentNext ==
    \E t \in Threads :
        \/ \E conversion_type \in ConversionTypes : CallTranspile(t, conversion_type)
        \/ CheckTarget(t)
        \/ ImportStep(t)
        \/ ExportStep(t)

SpecConcurrent == ConcurrentInit /\ [][ConcurrentNext]_vars

\* what a finished call of thread t gave, and what the same call gives alone
Outcome(t) == <<threads[t].outcome, threads[t].ret, threads[t].err>>
Alone(t) ==
    LET alone == transpile(threads[t].wrapper, threads[t].conversion_type)
    IN  <<alone.outcome, alone.ret, alone.err>>

Minute == 60
Hour == 3600
Day == 86400
\* status_refresh of a device whose status is never refreshed
NoRefresh == -1

\* the clock when the model starts, and how many hours it runs on
StartTime == 100000
MaxHours == 1

Statuses == {"ONLINE", "OFFLINE"}

\* the devices of the collection, in the order a cursor yields them
Catalog ==
    << [qbraid_id |-> "ibm_q_armonk", name |-> "Armonk", provider |-> "IBM"],
       [qbraid_id |-> "aws_dm_sim", name |-> "DM1", provider |-> "AWS"] >>
DeviceIds == {Catalog[i].qbraid_id : i \in DOMAIN Catalog}

\* providers in the order in which list.sort() compares their names
Alphabetical == <<"AWS", "Google", "IBM">>

\* how long ago a status was read when the model starts: just now, exactly an
\* hour, a second more than an hour, twenty-five hours
Ages == {0, Hour, Hour + 1, Day + Hour}

Document(entry, status, status_refresh) ==
    [qbraid_id |-> entry.qbraid_id, name |-> entry.name, provider |-> entry.provider,
     status |-> status, status_refresh |-> status_refresh]

\* the filters get_devices is called with: none, by status, by a provider
\* none of the devices has
Queries == {{}, {<<"status", "ONLINE">>}, {<<"provider", "Google">>}}

\* collection.find(query): the matching documents in cursor order
Matches(document, query) == \A f \in query : document[f[1]] = f[2]

RECURSIVE Find(_, _, _)
Find(coll, query, i) ==
    IF i > Len(Catalog) THEN <<>>
    ELSE (IF Matches(coll[Catalog[i].qbraid_id], query)
          THEN <<coll[Catalog[i].qbraid_id]>> ELSE <<>>)
         \o Find(coll, query, i + 1)

\* device_data.sort(): rows are [provider, name, qbraid_id, status]
RowRank(row) == IndexOf(Alphabetical, row[1])

RECURSIVE Sort(_)
Sort(rows) ==
    IF rows = <<>> THEN <<>>
    ELSE LET least == CHOOSE i \in DOMAIN rows :
                         \A j \in DOMAIN rows :
                             RowRank(rows[i]) < RowRank(rows[j])
                             \/ (RowRank(rows[i]) = RowRank(rows[j]) /\ i <= j)
         IN  <<rows[least]>>
             \o Sort(SubSeq(rows, 1, least - 1) \o SubSeq(rows, least + 1, Len(rows)))

\* the lag of a sentinel is its distance from the clock like any other
lag_ignoring_sentinel(status_refresh, timestamp) == timestamp - status_refresh

\* _utils line 33
utils_lag(status_refresh, timestamp) ==
    IF status_refresh = NoRefresh THEN 0 ELSE timestamp - status_refresh

\* _utils lines 27-48: the loop over the cursor; `reads` is what device.status
\* gives for each device at the time of the call
RECURSIVE utils_loop(_, _, _, _)
utils_loop(cursor, timestamp, reads, acc) ==
    IF cursor = <<>> THEN acc
    ELSE LET document == Head(cursor)
             qbraid_id == document.qbraid_id
             lag == utils_lag(document.status_refresh, timestamp)
             status == IF lag > Hour THEN reads[qbraid_id] ELSE document.status
         IN  utils_loop(Tail(cursor), timestamp, reads,
                [collection |->
                    IF lag > Hour
                    THEN [acc.collection EXCEPT
                             ![qbraid_id].status = status,
                             ![qbraid_id].status_refresh = timestamp]
                    ELSE acc.collection,
                 device_data |-> Append(acc.device_data,
                     <<document.provider, document.name, qbraid_id, status>>),
                 tot_dev |-> acc.tot_dev + 1,
                 ref_dev |-> acc.ref_dev + (IF lag > Hour THEN 1 ELSE 0),
                 tot_lag |-> acc.tot_lag + lag])

\* _utils _get_device_data(query): the collection it leaves, and either
\* (device_data, lag in minutes) or the ZeroDivisionError of line 54
utils_get_device_data(coll, query, timestamp, reads) ==
    LET done == utils_loop(Find(coll, query, 1), timestamp, reads,
                           [collection |-> coll, device_data |-> <<>>, tot_dev |-> 0,
                            ref_dev |-> 0, tot_lag |-> 0])
    IN  IF done.tot_dev = 0
        THEN [collection |-> done.collection, err |-> "ZeroDivisionError",
              device_data |-> <<>>, lag |-> 0]
        ELSE [collection |-> done.collection, err |-> None,
              device_data |-> Sort(done.device_data),
              lag |-> (done.tot_lag \div done.tot_dev) \div Minute]

\* _utils get_devices(query), lines 129-166: the call as it ends
utils_get_devices(coll, query, timestamp, reads) ==
    LET data == utils_get_device_data(coll, query, timestamp, reads)
        msg == IF data.lag = 0 THEN [text |-> "All status up-to-date", n |-> 0]
               ELSE [text |-> "Avg status lag ~{lag} min", n |-> data.lag]
        this == [NoDeviceCall EXCEPT !.fn = "_utils.get_devices", !.query = query,
                                     !.reply = "list", !.before = coll,
                                     !.at = timestamp, !.reads = reads]
    IN  [collection |-> data.collection,
         call |-> IF data.err # None
                  THEN [this EXCEPT !.outcome = "raised", !.err = data.err]
                  ELSE [this EXCEPT
                           !.outcome = "returned", !.rows = data.device_data,
                           !.lag = data.lag,
                           !.footer = IF Len(data.device_data) = 0
                                      THEN [text |-> "No results matching given criteria",
                                            n |-> 0]
                                      ELSE msg]]

\* the API server's statusRefresh of a document: None for the sentinel, else
\* the ISO date and time of day "YYYY-MM-DDThh:mm:ss..."
statusRefresh(document) ==
    IF document.status_refresh = NoRefresh THEN [is_none |-> TRUE, date |-> 0, time |-> 0]
    ELSE [is_none |-> FALSE, date |-> document.status_refresh \div Day,
          time |-> document.status_refresh % Day]

\* lines 69-73: the datetime built from the first 19 characters
mk_datime(status_refresh) == status_refresh.date * Day + status_refresh.time

\* timedelta(...).seconds: the seconds left over the whole days
timedelta_seconds(delta) == delta % Day

\* the lag as all the seconds elapsed
api_lag_total_seconds(document, timestamp) ==
    IF statusRefresh(document).is_none THEN 0
    ELSE timestamp - mk_datime(statusRefresh(document))

\* lines 65-74
api_lag(document, timestamp) ==
    IF statusRefresh(document).is_none THEN 0
    ELSE timedelta_seconds(timestamp - mk_datime(statusRefresh(document)))

\* refresh_devices(): every device with a statusRefresh has its status read
\* and put to /lab/update-device, where the server stores it with the time
refresh_devices(coll, timestamp, reads) ==
    [id \in DOMAIN coll |->
        IF statusRefresh(coll[id]).is_none THEN coll[id]
        ELSE [coll[id] EXCEPT !.status = reads[id], !.status_refresh = timestamp]]

RECURSIVE api_loop(_, _, _)
api_loop(devices, timestamp, acc) ==
    IF devices = <<>> THEN acc
    ELSE LET document == Head(devices)
         IN  api_loop(Tail(devices), timestamp,
                [device_data |-> Append(acc.device_data,
                     <<document.provider, document.name, document.qbraid_id,
                       document.status>>),
                 tot_dev |-> acc.tot_dev + 1,
                 tot_lag |-> acc.tot_lag + api_lag(document, timestamp)])

\* _get_device_data(query), lines 43-83; the server replies with the list of
\* matching devices or with an error string
api_get_device_data(coll, query, reply, timestamp) ==
    LET done == api_loop(Find(coll, query, 1), timestamp,
                         [device_data |-> <<>>, tot_dev |-> 0, tot_lag |-> 0])
    IN  IF reply = "error" THEN [err |-> "ApiError", device_data |-> <<>>, lag |-> 0]
        ELSE IF done.tot_dev = 0 THEN [err |-> None, device_data |-> <<>>, lag |-> 0]
        ELSE [err |-> None, device_data |-> Sort(done.device_data),
              lag |-> (done.tot_lag \div done.tot_dev) \div Minute]

\* lines 209-221: the message for a lag in minutes
updated_message(lag) ==
    LET hours == lag \div 60
        minutes == lag % 60
        min_display == IF minutes < 10 THEN minutes ELSE (minutes \div 10) * 10
    IN  IF hours > 0
        THEN IF minutes > 30
             THEN [text |-> "Device status updated {hours}.5 hours ago", n |-> hours]
             ELSE IF hours = 1
             THEN [text |-> "Device status updated {hours} hour ago", n |-> hours]
             ELSE [text |-> "Device status updated {hours} hours ago", n |-> hours]
        ELSE [text |-> "Device status updated {min_display} minutes ago", n |-> min_display]

\* get_devices(filters, refresh), lines 199-226: the call as it ends
get_devices(coll, filters, refresh, reply, timestamp, reads) ==
    LET refreshed == IF refresh THEN refresh_devices(coll, timestamp, reads) ELSE coll
        data == api_get_device_data(refreshed, filters, reply, timestamp)
        this == [NoDeviceCall EXCEPT !.fn = "get_devices", !.query = filters,
                                     !.refresh = refresh, !.reply = reply,
                                     !.before = coll, !.at = timestamp, !.reads = reads]
    IN  [collection |-> refreshed,
         call |-> IF data.err # None
                  THEN [this EXCEPT !.outcome = "raised", !.err = data.err]
                  ELSE [this EXCEPT
                           !.outcome = "returned", !.rows = data.device_data,
                           !.lag = data.lag,
                           !.footer = IF Len(data.device_data) = 0
                                      THEN [text |-> "No results matching given criteria",
                                            n |-> 0]
                                      ELSE updated_message(data.lag)]]

\* everything but the device listing
besidesDevices == <<transpilerVars, gateVars, concurrentVars, jobVars>>

DevicesInit ==
    /\ now = StartTime
    /\ collection \in
          {[id \in DeviceIds |->
               LET entry == CHOOSE e \in {Catalog[i] : i \in DOMAIN Catalog} :
                               e.qbraid_id = id
               IN  Document(entry, status[id], refreshed[id])] :
             status \in [DeviceIds -> Statuses],
             refreshed \in [DeviceIds -> {NoRefresh} \cup {StartTime - a : a \in Ages}]}
    /\ device_call = NoDeviceCall
    /\ TranspilerAtRest /\ GatesAtRest /\ ConcurrentAtRest /\ JobsAtRest

\* _utils get_devices(query), the devices answering `reads` when asked
UtilsGetDevices(query, reads) ==
    LET done == utils_get_devices(collection, query, now, reads)
    IN  /\ collection' = done.collection
        /\ device_call' = done.call
        /\ UNCHANGED <<now, besidesDevices>>

\* get_devices(filters, refresh)
GetDevices(filters, refresh, reply, reads) ==
    LET done == get_devices(collection, filters, refresh, reply, now, reads)
    IN  /\ collection' = done.collection
        /\ device_call' = done.call
        /\ UNCHANGED <<now, besidesDevices>>

\* an hour passes
Tick ==
    /\ now < StartTime + MaxHours * Hour
    /\ now' = now + Hour
    /\ UNCHANGED <<collection, device_call, besidesDevices>>

DevicesNext ==
    \/ \E query \in Queries, reads \in [DeviceIds -> Statuses] :
          UtilsGetDevices(query, reads)
    \/ \E filters \in Queries, refresh \in BOOLEAN, reply \in {"list", "error"},
          reads \in [DeviceIds -> Statuses] :
          GetDevices(filters, refresh, reply, reads)
    \/ Tick

SpecDevices == DevicesInit /\ [][DevicesNext]_vars

(***************************************************************************)
(* Properties of the device listing                                        *)
(***************************************************************************)

UtilsCallEnded == device_call.fn = "_utils.get_devices"

\* the documents the cursor of the ended database-backed call went over
MatchedBefore ==
    {id \in DeviceIds : Matches(device_call.before[id], device_call.query)}

\* a matched document whose status was stored more than an hour before the call
Stale(id) ==
    /\ id \in MatchedBefore
    /\ device_call.before[id].status_refresh # NoRefresh
    /\ device_call.at - device_call.before[id].status_refresh > Hour

\* a matched document whose status was stored less than an hour before the call
Fresh(id) ==
    /\ id \in MatchedBefore
    /\ device_call.before[id].status_refresh # NoRefresh
    /\ device_call.at - device_call.before[id].status_refresh < Hour

\* the status shown for a device in the rows of the table
Shown(id) ==
    LET row == CHOOSE r \in {device_call.rows[i] : i \in DOMAIN device_call.rows} :
                  r[3] = id
    IN  row[4]

\* C17: when the database-backed get_devices has run, every matched device
\* whose status was stored more than 3600 seconds before and is not marked -1
\* holds the status read from the device and the time of the call, the table
\* shows the status read, no such device is left older than an hour, and a
\* device refreshed less than an hour before, or marked -1, is as it was.
AutoRefreshHourly ==
    UtilsCallEnded =>
        \A id \in DeviceIds :
            /\ Stale(id) =>
                  /\ collection[id].status = device_call.reads[id]
                  /\ collection[id].status_refresh = device_call.at
                  /\ device_call.at - collection[id].status_refresh <= Hour
                  /\ device_call.outcome = "returned" =>
                        Shown(id) = device_call.reads[id]
            /\ Fresh(id) \/ device_call.before[id].status_refresh = NoRefresh =>
                  /\ collection[id] = device_call.before[id]
                  /\ device_call.outcome = "returned" /\ id \in MatchedBefore =>
                        Shown(id) = device_call.before[id].status

\* a call that re-read a stale device whose status had changed, and left a
\* fresh device and its stored status alone although the device reads otherwise
AutoRefreshHourlyWitness ==
    /\ UtilsCallEnded
    /\ device_call.outcome = "returned"
    /\ \E id \in DeviceIds :
          /\ Stale(id)
          /\ device_call.reads[id] # device_call.before[id].status
          /\ collection[id].status = device_call.reads[id]
    /\ \E id \in DeviceIds :
          /\ Fresh(id)
          /\ device_call.reads[id] # device_call.before[id].status
          /\ collection[id] = device_call.before[id]

\* the documents the ended call listed: the database-backed one finds them
\* before its writes, the API-backed one after refresh_devices
NothingMatched ==
    /\ device_call.fn # "none"
    /\ device_call.reply = "list"
    /\ Find(IF UtilsCallEnded THEN device_call.before ELSE collection,
            device_call.query, 1) = <<>>

\* C15: get_devices with filters that match no device ends without error,
\* with no rows and the message 'No results matching given criteria', in the
\* database-backed and in the API-backed implementation.
NoResultsShown ==
    NothingMatched =>
        /\ device_call.outcome = "returned"
        /\ device_call.rows = <<>>
        /\ device_call.footer.text = "No results matching given criteria"

RECURSIVE SumElapsed(_, _)
SumElapsed(devices, timestamp) ==
    IF devices = <<>> THEN 0
    ELSE api_lag_total_seconds(Head(devices), timestamp)
         + SumElapsed(Tail(devices), timestamp)

\* the mean over the listed devices of the seconds since their statusRefresh,
\* in whole minutes
MeanElapsedMinutes ==
    LET devices == Find(collection, device_call.query, 1)
    IN  (SumElapsed(devices, device_call.at) \div Len(devices)) \div Minute

\* C16: the lag behind the message of the API-backed get_devices is the mean
\* over the matched devices of the seconds elapsed since each statusRefresh
\* (0 without one) in whole minutes, for every elapsed time, a day or more
\* included, and the message is the one for that lag.
LagIsMeanElapsed ==
    /\ device_call.fn = "get_devices"
    /\ device_call.outcome = "returned"
    /\ device_call.rows # <<>>
    => /\ device_call.lag = MeanElapsedMinutes
       /\ device_call.footer = updated_message(MeanElapsedMinutes)

(***************************************************************************)
(* Job documents: devices/_utils/job_api.py.  `jobs` is the collection of  *)
(* job documents behind the /init-job endpoint, `job_call` the last call.  *)
(***************************************************************************)

MaxJobs == 2

\* the identifiers the endpoint hands out, in order
JobIds == <<"job-1", "job-2", "job-3", "job-4">>

VendorJobIds == {"vendor-job-a"}
JobDevices == {[id |-> id] : id \in DeviceIds}
JobCircuits == {[num_qubits |-> 1, depth |-> 1], [num_qubits |-> 2, depth |-> 3]}
Shots == {10, 100}

\* os.environ["JUPYTERHUB_USER"], taken to be set
JUPYTERHUB_USER == "jovyan"

\* JobStatus.INITIALIZING
INITIALIZING == "INITIALIZING"

\* the /init-job endpoint: one document is stored under a new identifier,
\* which is the reply
post_init_job(coll, data) ==
    LET qbraid_job_id == JobIds[Len(coll) + 1]
    IN  [jobs |-> Append(coll, [data EXCEPT !.qbraid_job_id = qbraid_job_id]),
         json |-> qbraid_job_id]

\* binding of positional arguments to the one parameter init_data
mongo_init_job_binds(args) == Len(args) = 1

\* mongo_init_job(init_data), called with the positional arguments `args`
mongo_init_job(coll, args) ==
    IF ~mongo_init_job_binds(args)
    THEN [jobs |-> coll, outcome |-> "raised", err |-> "TypeError", ret |-> None]
    ELSE LET init_data == [user |-> JUPYTERHUB_USER] @@ args[1]
             posted == post_init_job(coll, init_data)
         IN  [jobs |-> posted.jobs, outcome |-> "returned", err |-> None,
              ret |-> posted.json]

\* lines 38-47: the dictionary init_job builds
init_job_data(vendor_job_id, device, circuit, shots, created) ==
    [qbraid_job_id |-> "",
     vendor_job_id |-> vendor_job_id,
     qbraid_device_id |-> device.id,
     circuit_num_qubits |-> circuit.num_qubits,
     circuit_depth |-> circuit.depth,
     shots |-> shots,
     createdAt |-> created,
     status |-> INITIALIZING]

\* init_job(vendor_job_id, device, circuit, shots): line 48 passes two arguments
init_job(coll, vendor_job_id, device, circuit, shots, created) ==
    mongo_init_job(coll, <<init_job_data(vendor_job_id, device, circuit, shots, created),
                           device.id>>)

\* everything but the job documents
besidesJobs == <<transpilerVars, gateVars, concurrentVars, deviceVars>>

JobsInit ==
    /\ jobs = <<>>
    /\ job_call = NoJobCall
    /\ TranspilerAtRest /\ GatesAtRest /\ ConcurrentAtRest /\ DevicesAtRest

\* init_job is called
InitJob(vendor_job_id, device, circuit, shots) ==
    LET done == init_job(jobs, vendor_job_id, device, circuit, shots, now)
    IN  /\ Len(jobs) < MaxJobs
        /\ jobs' = done.jobs
        /\ job_call' = [fn |-> "init_job",
                        args |-> <<vendor_job_id, device, circuit, shots>>,
                        before |-> jobs, outcome |-> done.outcome, err |-> done.err,
                        ret |-> done.ret]
        /\ UNCHANGED besidesJobs

\* mongo_init_job is called with a dictionary of its own
MongoInitJob(init_data) ==
    LET done == mongo_init_job(jobs, <<init_data>>)
    IN  /\ Len(jobs) < MaxJobs
        /\ jobs' = done.jobs
        /\ job_call' = [fn |-> "mongo_init_job", args |-> <<init_data>>,
                        before |-> jobs, outcome |-> done.outcome, err |-> done.err,
                        ret |-> done.ret]
        /\ UNCHANGED besidesJobs

JobsNext ==
    \/ \E vendor_job_id \in VendorJobIds, device \in JobDevices,
          circuit \in JobCircuits, shots \in Shots :
          InitJob(vendor_job_id, device, circuit, shots)
    \/ \E vendor_job_id \in VendorJobIds, device \in JobDevices,
          circuit \in JobCircuits, shots \in Shots :
          MongoInitJob(init_job_data(vendor_job_id, device, circuit, shots, now))

SpecJobs == JobsInit /\ [][JobsNext]_vars

\* C18: init_job(vendor_job_id, device, circuit, shots) leaves exactly one
\* new job document, with status INITIALIZING and the vendor job id, the
\* device id, the circuit's qubit count and depth and the shots, and returns
\* the qbraid_job_id of that document.
InitJobCreatesOneDocument ==
    job_call.fn = "init_job" =>
        /\ job_call.outcome = "returned"
        /\ Len(jobs) = Len(job_call.before) + 1
        /\ SubSeq(jobs, 1, Len(job_call.before)) = job_call.before
        /\ LET document == jobs[Len(jobs)]
           IN  /\ document.status = INITIALIZING
               /\ document.vendor_job_id = job_call.args[1]
               /\ document.qbraid_device_id = job_call.args[2].id
               /\ document.circuit_num_qubits = job_call.args[3].num_qubits
               /\ document.circuit_depth = job_call.args[3].depth
               /\ document.shots = job_call.args[4]
               /\ job_call.ret = document.qbraid_job_id
====
